---------------------------- MODULE Spec2Model ----------------------------
(***************************************************************************)
(* State-machine model of fcl/math/sampling.h: the random engine RNG and   *)
(* the configuration samplers built on it.                                 *)
(*                                                                         *)
(* Reals are binary floating-point numbers of a scaled-down format:        *)
(* Precision significant bits, round to nearest with ties to even, on a    *)
(* grid of 1/Scale.  A real x is held as the integer x * Scale.  An int is *)
(* IntBits wide, narrower than the significand, so that every int, hi + 1  *)
(* and every difference of two of them convert exactly, as 32-bit ints do  *)
(* in a 53-bit double.                                                     *)
(***************************************************************************)
EXTENDS Integers, Sequences, FiniteSets, TLC

VARIABLES
  seedGen,   \* the process-wide seed registry, one per process (run)
  rng,       \* the engines: owner id -> [generator_, normalDist_]
  smp,       \* the samplers' bound members: sampler id -> record
  pc,        \* each constructing thread's position in RNG::RNG
  call,      \* the operation performed last, with its arguments
  ret,       \* what it returned: [kind, val]
  pre        \* ghost: the engine the last operation started from, calls made

vars == <<seedGen, rng, smp, pc, call, ret, pre>>

---------------------------------------------------------------------------
(* Bounds of the model *)

\* significant bits of a real (53 in a double)
Precision == 4

\* bound arguments of uniformReal range over -MaxQ/4 .. MaxQ/4 in quarters
MaxQ == 8

\* width of a seed in bits (std::uint_fast32_t in the program)
SeedBits == 3

\* the clock reads 0 .. MaxClock when a process starts
MaxClock == 1

\* engines constructed in a run
MaxEngines == 2

\* SamplerR<N> is instantiated for N = 1 .. MaxN
MaxN == 5

\* sample() calls made on a sampler
MaxSamples == 2

\* threads constructing engines at once
MaxThreads == 3

\* calls made in a run
MaxSteps == 4

---------------------------------------------------------------------------
(* Floating-point arithmetic *)

RECURSIVE Pow2(_)
Pow2(k) == IF k <= 0 THEN 1 ELSE 2 * Pow2(k - 1)

Scale == Pow2(Precision)

Abs(n) == IF n < 0 THEN -n ELSE n

RECURSIVE BitLen(_)
BitLen(n) == IF n <= 0 THEN 0 ELSE 1 + BitLen(n \div 2)

\* n / q rounded to the nearest integer, ties to the even one (n >= 0, q >= 1)
RoundHalfEven(n, q) ==
  LET f == n \div q
      r == n % q
  IN  IF 2 * r < q THEN f
      ELSE IF 2 * r > q THEN f + 1
      ELSE IF f % 2 = 0 THEN f ELSE f + 1

\* The exact value n / (Scale * unit) rounded to the format, in units of 1/Scale.
fl(n, unit) ==
  LET a  == Abs(n)
      b  == BitLen(a)
      qs == IF b > Precision THEN Pow2(b - Precision) ELSE 1
      q  == IF qs > unit THEN qs ELSE unit
      m  == (RoundHalfEven(a, q) * q) \div unit
  IN  IF n < 0 THEN -m ELSE m

fadd(a, b) == fl(a + b, 1)
fsub(a, b) == fl(a - b, 1)
fmul(a, b) == fl(a * b, Scale)

Representable(n) == fl(n, 1) = n

\* (double) of an int: exact
ToDouble(i) == i * Scale

\* floor() of a real, as an integer
Floor(x) == x \div Scale

IntBits == Precision - 1
IntMax == Pow2(IntBits - 1) - 1
IntMin == -Pow2(IntBits - 1)
Ints == IntMin..IntMax

\* The builds: what the (int) conversion instruction yields out of range.
Builds == {"x86", "aarch64"}

\* (int) of an integral real: the value when an int holds it, and otherwise
\* undefined; the conversion instruction then yields the most negative int
\* (x86) or saturates (AArch64).
IntCast(build, v) ==
  IF v \in Ints THEN v
  ELSE IF build = "x86" THEN IntMin
  ELSE IF v > IntMax THEN IntMax ELSE IntMin

---------------------------------------------------------------------------
(* RNG: the engine and its draws *)

GenStates == 0..(Scale - 1)

\* normalDist_ with no variate kept
NoSaved == [saved_available |-> FALSE, saved |-> 0]

\* std::mt19937, abstracted: a full-period generator over GenStates
Advance(g) == (5 * g + 3) % Scale

\* generator_.seed(s)
Seeded(s) == [generator_ |-> s % Scale, normalDist_ |-> NoSaved]

\* uniDist_(generator_): a multiple of 1/Scale in [0, 1); advances generator_
uniDist_(e) ==
  [val |-> e.generator_, rng |-> [e EXCEPT !.generator_ = Advance(@)]]

\* the variate std::normal_distribution makes of two uniform draws
Normal(k1, k2) == 4 * (k1 - k2)

\* normalDist_(generator_): variates are made in pairs, the second one kept
normalDist_(e) ==
  IF e.normalDist_.saved_available
  THEN [val |-> e.normalDist_.saved, rng |-> [e EXCEPT !.normalDist_ = NoSaved]]
  ELSE LET d1 == uniDist_(e)
           d2 == uniDist_(d1.rng)
       IN  [val |-> Normal(d1.val, d2.val),
            rng |-> [d2.rng EXCEPT !.normalDist_ =
                       [saved_available |-> TRUE, saved |-> Normal(d2.val, d1.val)]]]

\* an outcome of a call: the value returned and the engine it leaves, or
\* the failure of an assert, which aborts the process
Value(v, e) == [kind |-> "value", val |-> v, rng |-> e]
AssertFail(e) == [kind |-> "assert", val |-> 0, rng |-> e]

uniform01(e) ==
  LET d == uniDist_(e) IN Value(d.val, d.rng)

uniformReal(e, lower_bound, upper_bound) ==
  IF ~(lower_bound <= upper_bound)
  THEN AssertFail(e)
  ELSE LET d == uniDist_(e)
       IN  Value(fadd(fmul(fsub(upper_bound, lower_bound), d.val), lower_bound),
                 d.rng)

uniformInt(build, e, lower_bound, upper_bound) ==
  LET x == uniformReal(e, ToDouble(lower_bound),
                       fadd(ToDouble(upper_bound), ToDouble(1)))
      r == IntCast(build, Floor(x.val))
  IN  IF x.kind = "assert"
      THEN x
      ELSE Value(IF r > upper_bound THEN upper_bound ELSE r, x.rng)

uniformBool(e) ==
  LET d == uniDist_(e) IN Value(2 * d.val <= Scale, d.rng)

gaussian01(e) ==
  LET d == normalDist_(e) IN Value(d.val, d.rng)

gaussian(e, mean, stddev) ==
  LET d == normalDist_(e) IN Value(fadd(fmul(d.val, stddev), mean), d.rng)

---------------------------------------------------------------------------
(* Spec: one engine and the uniform draws made on it *)

\* reals given as bounds: the quarters in -MaxQ/4 .. MaxQ/4
Quarter(k) == (k * Scale) \div 4
RealArgs == {Quarter(k) : k \in -MaxQ..MaxQ}

NoCall == [op |-> "none"]
NoRet == [kind |-> "none", val |-> 0]
Outcome(o) == [kind |-> o.kind, val |-> o.val]

InitRNG ==
  /\ seedGen = <<>>
  /\ \E g \in GenStates : rng = <<[generator_ |-> g, normalDist_ |-> NoSaved]>>
  /\ smp = <<>>
  /\ pc = <<>>
  /\ call = NoCall
  /\ ret = NoRet
  /\ pre = <<>>

\* one call on the engine: o is its outcome
Draw(c, o) ==
  /\ ret.kind # "assert"
  /\ call' = c
  /\ ret' = Outcome(o)
  /\ rng' = <<o.rng>>
  /\ pre' = rng
  /\ UNCHANGED <<seedGen, smp, pc>>

Do_uniform01 == Draw([op |-> "uniform01"], uniform01(rng[1]))

Do_uniformReal ==
  \E lo \in RealArgs, hi \in RealArgs :
    Draw([op |-> "uniformReal", lo |-> lo, hi |-> hi], uniformReal(rng[1], lo, hi))

Do_uniformInt ==
  \E lo \in Ints, hi \in Ints, build \in Builds :
    Draw([op |-> "uniformInt", lo |-> lo, hi |-> hi],
         uniformInt(build, rng[1], lo, hi))

Do_uniformBool == Draw([op |-> "uniformBool"], uniformBool(rng[1]))

NextRNG ==
  \/ Do_uniform01
  \/ Do_uniformReal
  \/ Do_uniformInt
  \/ Do_uniformBool

Spec == InitRNG /\ [][NextRNG]_vars

\* the uniform01 draw the last call consumed
DrawnU == pre[1].generator_

---------------------------------------------------------------------------
(* The process-wide seed registry and RNG::RNG (sampling.cpp): an optional *)
(* fixed seed, a first seed taken from the clock when none is fixed, and   *)
(* the counter each construction increments atomically.                    *)

SeedSpace == Pow2(SeedBits)
Seeds == 0..(SeedSpace - 1)

\* the registry a process starts with; time is what the clock read
Registry(time) == [fixed |-> FALSE, firstSeed |-> time % SeedSpace, counter |-> 0]

setSeedIgnored(reg, seed) == reg

\* RNG::setSeed(seed)
setSeed(reg, seed) == [fixed |-> TRUE, firstSeed |-> seed, counter |-> 0]

\* RNG::getSeed()
getSeed(reg) == reg.firstSeed

nextSeedFromFirstSeedAlone(reg) == reg.firstSeed

\* the seed the next constructed engine receives
nextSeed(reg) == (reg.firstSeed + reg.counter) % SeedSpace

\* the registry after a construction took its seed
seedTaken(reg) == [reg EXCEPT !.counter = @ + 1]

---------------------------------------------------------------------------
(* SpecSeed: two runs of the program that perform the same calls.  Each    *)
(* run has its own registry and clock; the calls are made in both at once. *)

Runs == 1..2

Call(op, who, lo, hi) == [op |-> op, who |-> who, lo |-> lo, hi |-> hi]

DrawCalls(who) ==
  {Call(op, who, 0, 0) : op \in {"uniform01", "uniformBool", "gaussian01"}}
    \cup {Call("uniformReal", who, Quarter(lo), Quarter(lo + 4)) : lo \in {-2, 8}}
    \cup {Call("uniformInt", who, lo, IntMax) : lo \in {0, IntMax}}
    \cup {Call("gaussian", who, Quarter(4), Quarter(2))}

DrawOps == {"uniform01", "uniformBool", "gaussian01", "uniformReal",
            "uniformInt", "gaussian"}

\* the call c made on engine e
DrawOn(build, c, e) ==
  CASE c.op = "uniform01" -> uniform01(e)
    [] c.op = "uniformBool" -> uniformBool(e)
    [] c.op = "gaussian01" -> gaussian01(e)
    [] c.op = "uniformReal" -> uniformReal(e, c.lo, c.hi)
    [] c.op = "uniformInt" -> uniformInt(build, e, c.lo, c.hi)
    [] c.op = "gaussian" -> gaussian(e, c.lo, c.hi)

InitSeed ==
  /\ \E t1 \in 0..MaxClock, t2 \in 0..MaxClock :
       /\ seedGen = <<Registry(t1), Registry(t2)>>
       /\ pre = [clock |-> <<t1, t2>>, set |-> FALSE, det |-> <<>>, steps |-> 0]
  /\ rng = <<(<<>>), (<<>>)>>
  /\ smp = <<>>
  /\ pc = <<>>
  /\ call = NoCall
  /\ ret = <<NoRet, NoRet>>

Step == /\ pre.steps < MaxSteps
        /\ UNCHANGED <<smp, pc>>

Both_setSeed ==
  \E seed \in Seeds :
    /\ Step
    /\ seedGen' = [r \in Runs |-> setSeed(seedGen[r], seed)]
    /\ call' = Call("setSeed", 0, seed, 0)
    /\ ret' = <<NoRet, NoRet>>
    /\ pre' = [pre EXCEPT !.steps = @ + 1, !.set = TRUE]
    /\ UNCHANGED rng

Both_getSeed ==
  /\ Step
  /\ call' = Call("getSeed", 0, 0, 0)
  /\ ret' = [r \in Runs |-> [kind |-> "value", val |-> getSeed(seedGen[r])]]
  /\ pre' = [pre EXCEPT !.steps = @ + 1]
  /\ UNCHANGED <<seedGen, rng>>

\* RNG::RNG() in both runs
Both_RNG ==
  /\ Step
  /\ Len(rng[1]) < MaxEngines
  /\ rng' = [r \in Runs |-> Append(rng[r], Seeded(nextSeed(seedGen[r])))]
  /\ seedGen' = [r \in Runs |-> seedTaken(seedGen[r])]
  /\ call' = Call("RNG", Len(rng[1]) + 1, 0, 0)
  /\ ret' = <<NoRet, NoRet>>
  /\ pre' = [pre EXCEPT !.steps = @ + 1,
                        !.det = Append(@, pre.set)]

Both_draw ==
  \E who \in 1..Len(rng[1]), build \in Builds :
    \E c \in DrawCalls(who) :
      /\ Step
      /\ call' = c
      /\ ret' = [r \in Runs |-> Outcome(DrawOn(build, c, rng[r][who]))]
      /\ rng' = [r \in Runs |->
                   [rng[r] EXCEPT ![who] = DrawOn(build, c, rng[r][who]).rng]]
      /\ pre' = [pre EXCEPT !.steps = @ + 1]
      /\ UNCHANGED seedGen

NextSeed ==
  \/ Both_setSeed
  \/ Both_getSeed
  \/ Both_RNG
  \/ Both_draw

SpecSeed == InitSeed /\ [][NextSeed]_vars

(* C3: engines constructed after setSeed(S) in two runs that perform the   *)
(* same constructions and draws are in the same state and return the same  *)
(* values, draw for draw, whatever the clock read in either run.           *)
C3_SameSeedSameDraws ==
  /\ \A i \in 1..Len(rng[1]) : pre.det[i] => rng[1][i] = rng[2][i]
  /\ (call.op \in DrawOps /\ pre.det[call.who]) => ret[1] = ret[2]

C3_Witness ==
  /\ pre.clock[1] # pre.clock[2]
  /\ call.op = "gaussian"
  /\ call.who = 2
  /\ pre.det[2]
  /\ ret[1].kind = "value"
  /\ ret[1] = ret[2]

---------------------------------------------------------------------------
(* SpecCtor: threads of one process constructing engines at once.          *)
(* RNG::RNG takes its seed from the registry in one atomic step and then   *)
(* seeds generator_ with it.                                               *)

Threads == 1..MaxThreads

InitCtor ==
  /\ \E time \in 0..MaxClock :
       \/ seedGen = <<Registry(time)>>
       \/ \E seed \in Seeds : seedGen = <<setSeed(Registry(time), seed)>>
  /\ rng = [t \in Threads |-> <<>>]
  /\ smp = <<>>
  /\ pc = [t \in Threads |-> [at |-> "idle", seed |-> 0]]
  /\ call = NoCall
  /\ ret = NoRet
  /\ pre = [t \in Threads |-> <<>>]

\* thread t enters RNG::RNG and takes the next seed
Ctor_nextSeed(t) ==
  /\ pc[t].at = "idle"
  /\ seedGen[1].counter < MaxSteps
  /\ pc' = [pc EXCEPT ![t] = [at |-> "seeding", seed |-> nextSeed(seedGen[1])]]
  /\ seedGen' = <<seedTaken(seedGen[1])>>
  /\ call' = Call("nextSeed", t, 0, 0)
  /\ UNCHANGED <<rng, smp, ret, pre>>

\* thread t seeds the generator of its engine, which is then constructed
Ctor_seed(t) ==
  /\ pc[t].at = "seeding"
  /\ rng' = [rng EXCEPT ![t] = Append(@, Seeded(pc[t].seed))]
  /\ pre' = [pre EXCEPT ![t] = Append(@, pc[t].seed)]
  /\ pc' = [pc EXCEPT ![t] = [at |-> "idle", seed |-> 0]]
  /\ call' = Call("RNG", t, 0, 0)
  /\ UNCHANGED <<seedGen, smp, ret>>

NextCtor == \E t \in Threads : Ctor_nextSeed(t) \/ Ctor_seed(t)

SpecCtor == InitCtor /\ [][NextCtor]_vars

\* the engines of the process, constructed or under construction, as
\* <<thread, index>> (index 0: the one under construction)
Instances ==
  {<<t, i>> : t \in Threads, i \in 0..MaxSteps} \cap
  {x \in Threads \X (0..MaxSteps) :
     IF x[2] = 0 THEN pc[x[1]].at = "seeding" ELSE x[2] <= Len(pre[x[1]])}

SeedOf(x) == IF x[2] = 0 THEN pc[x[1]].seed ELSE pre[x[1]][x[2]]

(* C4: under any interleaving of the constructions, the seeds of all       *)
(* engines constructed or under construction are pairwise different.       *)
C4_DistinctSeeds ==
  \A x \in Instances, y \in Instances : x # y => SeedOf(x) # SeedOf(y)

\* two threads' constructions overtook each other and a third is under way
C4_Witness ==
  /\ Len(pre[1]) >= 1
  /\ Len(pre[2]) >= 2
  /\ pre[2][1] = seedGen[1].firstSeed
  /\ pre[1][1] = (seedGen[1].firstSeed + 1) % SeedSpace
  /\ call.op = "RNG"
  /\ call.who = 2
  /\ \E t \in Threads : pc[t].at = "seeding"

---------------------------------------------------------------------------
(* The primitives of sampling.cpp the samplers draw from.  Their values    *)
(* are square roots, sines and cosines of the draws: they are kept as      *)
(* terms <<name, draws...>>.                                               *)

\* constants::pi, rounded to the format
Pi == fl((355 * Scale) \div 113, 1)

\* RNG::quaternion(value): three uniform01 draws
quaternion(e) ==
  LET d1 == uniDist_(e)
      d2 == uniDist_(d1.rng)
      d3 == uniDist_(d2.rng)
  IN  Value([c \in {"x", "y", "z", "w"} |-> <<"quat", c, d1.val, d2.val, d3.val>>],
            d3.rng)

\* RNG::disk(r_min, r_max, x, y): an angle in [0, 2 pi) and a radius whose
\* square is uniform in [r_min^2, r_max^2)
disk(e, r_min, r_max) ==
  LET theta == uniformReal(e, 0, fmul(ToDouble(2), Pi))
      rho2  == uniformReal(theta.rng, fmul(r_min, r_min), fmul(r_max, r_max))
  IN  IF rho2.kind = "assert"
      THEN rho2
      ELSE Value([c \in {"x", "y"} |-> <<"disk", c, theta.val, rho2.val>>], rho2.rng)

\* RNG::ball(r_min, r_max, x, y, z): a direction on the unit sphere and a
\* radius whose cube is uniform in [r_min^3, r_max^3)
ball(e, r_min, r_max) ==
  LET dir  == quaternion(e)
      rho3 == uniformReal(dir.rng, fmul(fmul(r_min, r_min), r_min),
                          fmul(fmul(r_max, r_max), r_max))
  IN  IF rho3.kind = "assert"
      THEN rho3
      ELSE Value([c \in {"x", "y", "z"} |-> <<"ball", c, dir.val["x"], rho3.val>>],
                 rho3.rng)

\* quat.toRotationMatrix().eulerAngles(0, 1, 2)
eulerAngles(quat) == [i \in 1..3 |-> <<"euler", i, quat["x"]>>]

---------------------------------------------------------------------------
(* The samplers.  A vector is a sequence: index i of the program is        *)
(* position i + 1.  sample() returns the configuration, the engine it      *)
(* leaves and the number of primitive draw calls it made.                  *)

Sampled(q, e, n) == [kind |-> "value", val |-> q, rng |-> e, draws |-> n]
Aborted(e, n) == [kind |-> "assert", val |-> <<>>, rng |-> e, draws |-> n]

(* SamplerR<N> *)

SamplerR(lower_bound_, upper_bound_) ==
  [kind |-> "R", lower_bound |-> lower_bound_, upper_bound |-> upper_bound_]

SamplerR_setBoundLowerOnly(s, lower_bound_, upper_bound_) ==
  [s EXCEPT !.lower_bound = lower_bound_]

SamplerR_setBound(s, lower_bound_, upper_bound_) ==
  [s EXCEPT !.lower_bound = lower_bound_, !.upper_bound = upper_bound_]

SamplerR_getBound(s) == <<s.lower_bound, s.upper_bound>>

RECURSIVE SamplerR_loopFirstBounds(_, _, _, _)
SamplerR_loopFirstBounds(s, e, i, q) ==
  IF i > Len(s.lower_bound)
  THEN Sampled(q, e, i - 1)
  ELSE LET x == uniformReal(e, s.lower_bound[1], s.upper_bound[1])
       IN  IF x.kind = "assert"
           THEN Aborted(e, i)
           ELSE SamplerR_loopFirstBounds(s, x.rng, i + 1, Append(q, x.val))

SamplerR_sampleFirstBounds(s, e) == SamplerR_loopFirstBounds(s, e, 1, <<>>)

\* the loop of sample() from coordinate i on, q holding the coordinates drawn
RECURSIVE SamplerR_loop(_, _, _, _)
SamplerR_loop(s, e, i, q) ==
  IF i > Len(s.lower_bound)
  THEN Sampled(q, e, i - 1)
  ELSE LET x == uniformReal(e, s.lower_bound[i], s.upper_bound[i])
       IN  IF x.kind = "assert"
           THEN Aborted(e, i)
           ELSE SamplerR_loop(s, x.rng, i + 1, Append(q, x.val))

SamplerR_sample(s, e) == SamplerR_loop(s, e, 1, <<>>)

(* SamplerSE2 *)

SamplerSE2(lower_bound_, upper_bound_) ==
  [kind |-> "SE2", lower_bound |-> lower_bound_, upper_bound |-> upper_bound_]

SamplerSE2_setBound(s, lower_bound_, upper_bound_) ==
  [s EXCEPT !.lower_bound = lower_bound_, !.upper_bound = upper_bound_]

SamplerSE2_getBound(s) == <<s.lower_bound, s.upper_bound>>

\* sample(), oob being what the read of lower_bound[2], past the end of the
\* two-element vector, does: it yields the real oob.val, or aborts when the
\* build checks the index
SamplerSE2_sample(s, e, oob) ==
  LET x0 == uniformReal(e, s.lower_bound[1], s.lower_bound[2])
      x1 == uniformReal(x0.rng, s.lower_bound[2], oob.val)
      x2 == uniformReal(x1.rng, -Pi, Pi)
  IN  IF x0.kind = "assert" THEN Aborted(e, 1)
      ELSE IF oob.abort THEN Aborted(x0.rng, 1)
      ELSE IF x1.kind = "assert" THEN Aborted(x0.rng, 2)
      ELSE Sampled(<<x0.val, x1.val, x2.val>>, x2.rng, 3)

(* SamplerSE2_disk *)

SamplerSE2_disk_setBound(s, cx, cy, r1, r2, crefx, crefy) ==
  [s EXCEPT !.c = <<cx, cy>>, !.cref = <<crefx, crefy>>, !.r_min = r1, !.r_max = r2]

SamplerSE2_disk(cx, cy, r1, r2, crefx, crefy) ==
  SamplerSE2_disk_setBound(
    [kind |-> "SE2_disk", c |-> <<0, 0>>, cref |-> <<0, 0>>, r_min |-> 0, r_max |-> 0],
    cx, cy, r1, r2, crefx, crefy)

SamplerSE2_disk_sample(s, e) ==
  LET p  == disk(e, s.r_min, s.r_max)
      x2 == uniformReal(p.rng, -Pi, Pi)
  IN  IF p.kind = "assert" THEN Aborted(e, 1)
      ELSE Sampled(<<<<p.val["x"], s.c[1], s.cref[1]>>,
                     <<p.val["y"], s.c[2], s.cref[2]>>, x2.val>>, x2.rng, 2)

(* SamplerSE3Euler and SamplerSE3Quat *)

SamplerSE3Euler(lower_bound_, upper_bound_) ==
  [kind |-> "SE3Euler", lower_bound |-> lower_bound_, upper_bound |-> upper_bound_]

SamplerSE3Euler_setBound(s, lower_bound_, upper_bound_) ==
  [s EXCEPT !.lower_bound = lower_bound_, !.upper_bound = upper_bound_]

SamplerSE3Euler_getBound(s) == <<s.lower_bound, s.upper_bound>>

\* the three position draws the two box samplers of SE3 start with
BoxPosition(s, e) ==
  LET x0 == uniformReal(e, s.lower_bound[1], s.upper_bound[1])
      x1 == uniformReal(x0.rng, s.lower_bound[2], s.upper_bound[2])
      x2 == uniformReal(x1.rng, s.lower_bound[3], s.upper_bound[3])
  IN  IF x0.kind = "assert" THEN Aborted(e, 1)
      ELSE IF x1.kind = "assert" THEN Aborted(x0.rng, 2)
      ELSE IF x2.kind = "assert" THEN Aborted(x1.rng, 3)
      ELSE Sampled(<<x0.val, x1.val, x2.val>>, x2.rng, 3)

SamplerSE3Euler_sample(s, e) ==
  LET p == BoxPosition(s, e)
      quat == quaternion(p.rng)
  IN  IF p.kind = "assert" THEN p
      ELSE Sampled(p.val \o eulerAngles(quat.val), quat.rng, 4)

SamplerSE3Quat(lower_bound_, upper_bound_) ==
  [kind |-> "SE3Quat", lower_bound |-> lower_bound_, upper_bound |-> upper_bound_]

SamplerSE3Quat_setBound(s, lower_bound_, upper_bound_) ==
  [s EXCEPT !.lower_bound = lower_bound_, !.upper_bound = upper_bound_]

SamplerSE3Quat_getBound(s) == <<s.lower_bound, s.upper_bound>>

SamplerSE3Quat_sampleNoQuaternion(s, e) == BoxPosition(s, e)

SamplerSE3Quat_sample(s, e) ==
  LET p == BoxPosition(s, e)
      quat == quaternion(p.rng)
  IN  IF p.kind = "assert" THEN p
      ELSE Sampled(p.val \o <<quat.val["x"], quat.val["y"], quat.val["z"],
                              quat.val["w"]>>, quat.rng, 4)

(* SamplerSE3Euler_ball and SamplerSE3Quat_ball *)

SamplerSE3Euler_ball(r_) == [kind |-> "SE3Euler_ball", r |-> r_]

SamplerSE3Euler_ball_setBound(s, r_) == [s EXCEPT !.r = r_]

SamplerSE3Euler_ball_getBound(s) == s.r

SamplerSE3Euler_ball_sample(s, e) ==
  LET p == ball(e, 0, s.r)
      quat == quaternion(p.rng)
  IN  IF p.kind = "assert" THEN Aborted(e, 1)
      ELSE Sampled(<<p.val["x"], p.val["y"], p.val["z"]>> \o eulerAngles(quat.val),
                   quat.rng, 2)

SamplerSE3Quat_ball(r_) == [kind |-> "SE3Quat_ball", r |-> r_]

SamplerSE3Quat_ball_setBound(s, r_) == [s EXCEPT !.r = r_]

SamplerSE3Quat_ball_getBound(s) == s.r

SamplerSE3Quat_ball_sample(s, e) ==
  LET p == ball(e, 0, s.r)
      quat == quaternion(p.rng)
  IN  IF p.kind = "assert" THEN Aborted(e, 1)
      ELSE Sampled(<<p.val["x"], p.val["y"], p.val["z"], quat.val["x"],
                     quat.val["y"], quat.val["z"], quat.val["w"]>>, quat.rng, 2)

---------------------------------------------------------------------------
(* SpecSampler: one sampler of any class, its bounds set, read and sampled *)

\* the reals given as bounds: -1, 2 and 3
SmpVals == {Quarter(-4), Quarter(8), Quarter(12)}

ConstVec(n, v) == [i \in 1..n |-> v]

\* the vectors of n reals given as bounds: all of them up to two
\* coordinates, the constant ones beyond
Vecs(n) == IF n <= 2 THEN [1..n -> SmpVals] ELSE {ConstVec(n, v) : v \in SmpVals}

\* what a read past the end of a bound vector may do
OobReads ==
  {[abort |-> TRUE, val |-> 0]} \cup {[abort |-> FALSE, val |-> v] : v \in SmpVals}

Samplers ==
  UNION {{SamplerR(l, u) : l \in Vecs(n), u \in Vecs(n)} : n \in 1..MaxN}
    \cup {SamplerSE2(l, u) : l \in Vecs(2), u \in Vecs(2)}
    \cup {SamplerSE2_disk(c, c, r1, r2, cref, cref) :
            c \in SmpVals, cref \in SmpVals, r1 \in SmpVals, r2 \in SmpVals}
    \cup {SamplerSE3Euler(l, u) : l \in Vecs(3), u \in Vecs(3)}
    \cup {SamplerSE3Quat(l, u) : l \in Vecs(3), u \in Vecs(3)}
    \cup {SamplerSE3Euler_ball(r) : r \in SmpVals}
    \cup {SamplerSE3Quat_ball(r) : r \in SmpVals}

InitSampler ==
  /\ seedGen = <<>>
  /\ \E s \in Samplers : smp = <<s>>
  /\ \E g \in GenStates : rng = <<[generator_ |-> g, normalDist_ |-> NoSaved]>>
  /\ pc = <<>>
  /\ call = NoCall
  /\ ret = NoRet
  /\ pre = <<>>

\* sample() on the sampler, o being its outcome
Sample(o) ==
  /\ ret.kind # "assert"
  /\ call' = Call("sample", 1, 0, 0)
  /\ ret' = [kind |-> o.kind, val |-> o.val, draws |-> o.draws]
  /\ rng' = <<o.rng>>
  /\ pre' = rng
  /\ UNCHANGED <<seedGen, smp, pc>>

SamplerR_Sample ==
  smp[1].kind = "R" /\ Sample(SamplerR_sample(smp[1], rng[1]))

SamplerSE2_Sample ==
  /\ smp[1].kind = "SE2"
  /\ \E oob \in OobReads : Sample(SamplerSE2_sample(smp[1], rng[1], oob))

SamplerSE2_disk_Sample ==
  smp[1].kind = "SE2_disk" /\ Sample(SamplerSE2_disk_sample(smp[1], rng[1]))

SamplerSE3Euler_Sample ==
  smp[1].kind = "SE3Euler" /\ Sample(SamplerSE3Euler_sample(smp[1], rng[1]))

SamplerSE3Quat_Sample ==
  smp[1].kind = "SE3Quat" /\ Sample(SamplerSE3Quat_sample(smp[1], rng[1]))

SamplerSE3Euler_ball_Sample ==
  /\ smp[1].kind = "SE3Euler_ball"
  /\ Sample(SamplerSE3Euler_ball_sample(smp[1], rng[1]))

SamplerSE3Quat_ball_Sample ==
  /\ smp[1].kind = "SE3Quat_ball"
  /\ Sample(SamplerSE3Quat_ball_sample(smp[1], rng[1]))

\* setBound(...) on the sampler, s being the sampler it leaves
SetBound(s) ==
  /\ ret.kind # "assert"
  /\ smp' = <<s>>
  /\ call' = Call("setBound", 1, 0, 0)
  /\ ret' = NoRet
  /\ pre' = rng
  /\ UNCHANGED <<seedGen, rng, pc>>

BoxSetBound(s, l, u) ==
  CASE s.kind = "R" -> SamplerR_setBound(s, l, u)
    [] s.kind = "SE2" -> SamplerSE2_setBound(s, l, u)
    [] s.kind = "SE3Euler" -> SamplerSE3Euler_setBound(s, l, u)
    [] s.kind = "SE3Quat" -> SamplerSE3Quat_setBound(s, l, u)

Box_SetBound ==
  /\ smp[1].kind \in {"R", "SE2", "SE3Euler", "SE3Quat"}
  /\ \E l \in Vecs(Len(smp[1].lower_bound)), u \in Vecs(Len(smp[1].lower_bound)) :
       SetBound(BoxSetBound(smp[1], l, u))

SamplerSE2_disk_SetBound ==
  /\ smp[1].kind = "SE2_disk"
  /\ \E c \in SmpVals, cref \in SmpVals, r1 \in SmpVals, r2 \in SmpVals :
       SetBound(SamplerSE2_disk_setBound(smp[1], c, c, r1, r2, cref, cref))

Ball_SetBound ==
  \E r \in SmpVals :
    \/ /\ smp[1].kind = "SE3Euler_ball"
       /\ SetBound(SamplerSE3Euler_ball_setBound(smp[1], r))
    \/ /\ smp[1].kind = "SE3Quat_ball"
       /\ SetBound(SamplerSE3Quat_ball_setBound(smp[1], r))

BoundOf(s) ==
  CASE s.kind = "R" -> SamplerR_getBound(s)
    [] s.kind = "SE2" -> SamplerSE2_getBound(s)
    [] s.kind = "SE3Euler" -> SamplerSE3Euler_getBound(s)
    [] s.kind = "SE3Quat" -> SamplerSE3Quat_getBound(s)
    [] s.kind = "SE3Euler_ball" -> SamplerSE3Euler_ball_getBound(s)
    [] s.kind = "SE3Quat_ball" -> SamplerSE3Quat_ball_getBound(s)

\* getBound(...): SamplerSE2_disk has none
GetBound ==
  /\ ret.kind # "assert"
  /\ smp[1].kind # "SE2_disk"
  /\ call' = Call("getBound", 1, 0, 0)
  /\ ret' = [kind |-> "value", val |-> BoundOf(smp[1]), draws |-> 0]
  /\ pre' = rng
  /\ UNCHANGED <<seedGen, rng, smp, pc>>

NextSampler ==
  \/ SamplerR_Sample
  \/ SamplerSE2_Sample
  \/ SamplerSE2_disk_Sample
  \/ SamplerSE3Euler_Sample
  \/ SamplerSE3Quat_Sample
  \/ SamplerSE3Euler_ball_Sample
  \/ SamplerSE3Quat_ball_Sample
  \/ Box_SetBound
  \/ SamplerSE2_disk_SetBound
  \/ Ball_SetBound
  \/ GetBound

SpecSampler == InitSampler /\ [][NextSampler]_vars

\* the engine after n uniform01 draws on e
RECURSIVE After(_, _)
After(e, n) == IF n = 0 THEN e ELSE After(uniDist_(e).rng, n - 1)

WellFormed(s) ==
  \A i \in 1..Len(s.lower_bound) : s.lower_bound[i] <= s.upper_bound[i]

(* C5: with lower[i] <= upper[i] for all i, SamplerR<N>::sample returns an *)
(* N-vector whose component i is uniformReal(lower[i], upper[i]) of the    *)
(* i-th draw made on the engine, and lies between lower[i] and upper[i].   *)
C5_BoxPerCoordinate ==
  (call.op = "sample" /\ smp[1].kind = "R" /\ WellFormed(smp[1]))
    => /\ ret.kind = "value"
       /\ Len(ret.val) = Len(smp[1].lower_bound)
       /\ \A i \in 1..Len(ret.val) :
            /\ ret.val[i] = uniformReal(After(pre[1], i - 1), smp[1].lower_bound[i],
                                        smp[1].upper_bound[i]).val
            /\ smp[1].lower_bound[i] <= ret.val[i]
            /\ ret.val[i] <= smp[1].upper_bound[i]

\* a box of two coordinates with different bounds, the second one drawn at
\* its upper bound
C5_Witness ==
  /\ call.op = "sample"
  /\ smp[1].kind = "R"
  /\ Len(smp[1].lower_bound) = 2
  /\ smp[1].lower_bound[1] < smp[1].upper_bound[1]
  /\ smp[1].lower_bound[2] < smp[1].upper_bound[2]
  /\ smp[1].lower_bound[1] # smp[1].lower_bound[2]
  /\ smp[1].upper_bound[1] # smp[1].upper_bound[2]
  /\ ret.kind = "value"
  /\ ret.val[1] < smp[1].lower_bound[2]
  /\ ret.val[2] = smp[1].upper_bound[2]

(* C6: SamplerSE2::sample returns (x, y, heading) with x in the range      *)
(* lower[0]..upper[0], y in the range lower[1]..upper[1] and heading in    *)
(* [-pi, pi), reading only indices 0 and 1 of the bound vectors.           *)
C6_PlanarWithinBox ==
  (call.op = "sample" /\ smp[1].kind = "SE2" /\ WellFormed(smp[1]))
    => /\ ret.kind = "value"
       /\ smp[1].lower_bound[1] <= ret.val[1]
       /\ ret.val[1] <= smp[1].upper_bound[1]
       /\ smp[1].lower_bound[2] <= ret.val[2]
       /\ ret.val[2] <= smp[1].upper_bound[2]
       /\ -Pi <= ret.val[3]
       /\ ret.val[3] < Pi

\* the number of primitive draw calls of a sample() that returns, and the
\* size of the vector it returns
DrawsOf(s) ==
  CASE s.kind = "R" -> Len(s.lower_bound)
    [] s.kind = "SE2" -> 3
    [] s.kind \in {"SE3Euler", "SE3Quat"} -> 4
    [] OTHER -> 2

SizeOf(s) ==
  CASE s.kind = "R" -> Len(s.lower_bound)
    [] s.kind \in {"SE2", "SE2_disk"} -> 3
    [] s.kind \in {"SE3Euler", "SE3Euler_ball"} -> 6
    [] OTHER -> 7

(* C10: every sample() makes at least 1 and at most 4 primitive draw calls *)
(* and returns a vector of the size of its class.                          *)
C10_OneToFourDraws ==
  (call.op = "sample" /\ ret.kind = "value")
    => /\ 1 <= ret.draws
       /\ ret.draws <= 4
       /\ Len(ret.val) = SizeOf(smp[1])

(* C10, amended: a sample() that returns has made N draw calls for         *)
(* SamplerR<N>, 3 for SamplerSE2, 2 for SamplerSE2_disk, 4 for the box     *)
(* samplers of SE3 and 2 for the ball samplers, and returns a vector of    *)
(* the size of its class; one that aborts has made no more than that.      *)
C10_DrawsPerClass ==
  (call.op = "sample")
    => /\ ret.kind = "value" =>
            (ret.draws = DrawsOf(smp[1]) /\ Len(ret.val) = SizeOf(smp[1]))
       /\ ret.kind = "assert" => (1 <= ret.draws /\ ret.draws <= DrawsOf(smp[1]))

C10_Witness ==
  /\ call.op = "sample"
  /\ smp[1].kind = "R"
  /\ ret.kind = "value"
  /\ ret.draws = 5
  /\ Len(ret.val) = 5

---------------------------------------------------------------------------
(* SpecRebind: a box sampler A constructed with its bounds and a box       *)
(* sampler B constructed with others, both engines seeded alike; B is      *)
(* rebound with setBound, and both are sampled together.                   *)

\* the bounds given to A and to setBound: the vectors of 2 and 3
RebindVecs == [1..2 -> {Quarter(8), Quarter(12)}]

InitRebind ==
  /\ seedGen = <<>>
  /\ \E la \in RebindVecs, ua \in RebindVecs, b \in SmpVals :
       /\ smp = <<SamplerR(la, ua), SamplerR(ConstVec(2, b), ConstVec(2, b))>>
       /\ pre = [lastSet |-> <<>>, synced |-> TRUE, samples |-> 0]
  /\ \E seed \in 0..MaxClock : rng = <<Seeded(seed), Seeded(seed)>>
  /\ pc = <<>>
  /\ call = NoCall
  /\ ret = <<NoRet, NoRet>>

Alive == \A i \in 1..2 : ret[i].kind # "assert"

\* B.setBound(l, u)
B_setBound ==
  \E l \in RebindVecs, u \in RebindVecs :
    /\ Alive
    /\ smp' = [smp EXCEPT ![2] = SamplerR_setBound(@, l, u)]
    /\ pre' = [pre EXCEPT !.lastSet = <<l, u>>]
    /\ call' = Call("setBound", 2, 0, 0)
    /\ ret' = <<NoRet, NoRet>>
    /\ UNCHANGED <<seedGen, rng, pc>>

\* A.sample() and B.sample()
Both_sample ==
  /\ Alive
  /\ pre.samples < MaxSamples
  /\ call' = Call("sample", 0, 0, 0)
  /\ ret' = [i \in 1..2 |-> Outcome(SamplerR_sample(smp[i], rng[i]))]
  /\ rng' = [i \in 1..2 |-> SamplerR_sample(smp[i], rng[i]).rng]
  /\ pre' = [pre EXCEPT !.samples = @ + 1,
                        !.synced = @ /\ pre.lastSet = SamplerR_getBound(smp[1])]
  /\ UNCHANGED <<seedGen, smp, pc>>

\* A.getBound(...) and B.getBound(...)
Both_getBound ==
  /\ Alive
  /\ call' = Call("getBound", 0, 0, 0)
  /\ ret' = [i \in 1..2 |-> [kind |-> "value", val |-> SamplerR_getBound(smp[i])]]
  /\ UNCHANGED <<seedGen, rng, smp, pc, pre>>

NextRebind ==
  \/ B_setBound
  \/ Both_sample
  \/ Both_getBound

SpecRebind == InitRebind /\ [][NextRebind]_vars

(* C8: when B was given A's bounds with setBound before each sample(), A   *)
(* and B, seeded alike, return the same values from sample() and leave     *)
(* their engines in the same state.                                        *)
C8_RebindSameSamples ==
  (call.op = "sample" /\ pre.synced) => (ret[1] = ret[2] /\ rng[1] = rng[2])

\* the second sample() of both, B rebound to A's bounds, which differ in
\* their coordinates
C8_Witness ==
  /\ call.op = "sample"
  /\ pre.synced
  /\ pre.samples = 2
  /\ ret[1].kind = "value"
  /\ ret[2] = ret[1]
  /\ smp[1].lower_bound[1] < smp[1].upper_bound[1]
  /\ smp[1].lower_bound[1] < ret[1].val[1]

---------------------------------------------------------------------------
(* SpecFrame: two samplers of class SamplerSE3Euler, each with its own     *)
(* engine (SamplerBase::rng), used in any order.                           *)

SharedEngine(i) == 1

\* the engine sampler i draws from: its member rng
EngineOf(i) == i

Boxes == {<<ConstVec(3, l), ConstVec(3, u)>> : l \in SmpVals, u \in SmpVals}

InitFrame ==
  /\ seedGen = <<>>
  /\ \E b1 \in Boxes, b2 \in Boxes :
       /\ smp = <<SamplerSE3Euler(b1[1], b1[2]), SamplerSE3Euler(b2[1], b2[2])>>
       /\ pre = [installed |-> <<b1, b2>>, samples |-> <<0, 0>>]
  /\ \E s1 \in 0..MaxClock, s2 \in 0..MaxClock : rng = <<Seeded(s1), Seeded(s2)>>
  /\ pc = <<>>
  /\ call = NoCall
  /\ ret = NoRet

Each_setBound(i) ==
  \E b \in Boxes :
    /\ ret.kind # "assert"
    /\ smp' = [smp EXCEPT ![i] = SamplerSE3Euler_setBound(@, b[1], b[2])]
    /\ pre' = [pre EXCEPT !.installed[i] = b]
    /\ call' = Call("setBound", i, 0, 0)
    /\ ret' = NoRet
    /\ UNCHANGED <<seedGen, rng, pc>>

Each_getBound(i) ==
  /\ ret.kind # "assert"
  /\ call' = Call("getBound", i, 0, 0)
  /\ ret' = [kind |-> "value", val |-> SamplerSE3Euler_getBound(smp[i])]
  /\ UNCHANGED <<seedGen, rng, smp, pc, pre>>

Each_sample(i) ==
  /\ ret.kind # "assert"
  /\ pre.samples[i] < MaxSamples
  /\ call' = Call("sample", i, 0, 0)
  /\ ret' = Outcome(SamplerSE3Euler_sample(smp[i], rng[EngineOf(i)]))
  /\ rng' = [rng EXCEPT ![EngineOf(i)] =
               SamplerSE3Euler_sample(smp[i], rng[EngineOf(i)]).rng]
  /\ pre' = [pre EXCEPT !.samples[i] = @ + 1]
  /\ UNCHANGED <<seedGen, smp, pc>>

NextFrame ==
  \E i \in 1..2 :
    \/ Each_setBound(i)
    \/ Each_getBound(i)
    \/ Each_sample(i)

SpecFrame == InitFrame /\ [][NextFrame]_vars

(* C9: a sample() step leaves the bounds of every sampler and the engine   *)
(* of every other sampler as they were, and getBound returns the bounds    *)
(* given last by the constructor or setBound.                              *)
C9_SampleFrame ==
  /\ [][call'.op = "sample" =>
          /\ smp' = smp
          /\ \A j \in 1..2 : j # call'.who => rng'[j] = rng[j]]_vars
  /\ [](\A i \in 1..2 : SamplerSE3Euler_getBound(smp[i]) = pre.installed[i])
  /\ [](call.op = "getBound" => ret.val = pre.installed[call.who])

\* sampler 2 sampled after sampler 1 did, and after both were rebound
C9_Witness ==
  /\ call.op = "sample"
  /\ call.who = 2
  /\ ret.kind = "value"
  /\ pre.samples = <<2, 1>>
  /\ pre.installed[1] # pre.installed[2]
  /\ rng[1] # rng[2]

---------------------------------------------------------------------------
(* C1: for lo <= hi, uniformInt(lo, hi) returns an integer r with          *)
(* lo <= r <= hi.                                                          *)
C1_UniformIntInRange ==
  (call.op = "uniformInt" /\ call.lo <= call.hi /\ ret.kind = "value")
    => (call.lo <= ret.val /\ ret.val <= call.hi)

(* C2: for lo <= hi, uniformReal(lo, hi) returns lo + (hi - lo) * u, a     *)
(* value >= lo and strictly < hi.                                          *)
C2_UniformRealHalfOpen ==
  (call.op = "uniformReal" /\ call.lo <= call.hi)
    => /\ ret.kind = "value"
       /\ ret.val = fadd(fmul(fsub(call.hi, call.lo), DrawnU), call.lo)
       /\ call.lo <= ret.val
       /\ ret.val < call.hi

(* C7: a draw requested with lower > upper ends in the assertion failure   *)
(* and returns no value.                                                   *)
C7_MalformedBoundsAssert ==
  (call.op \in {"uniformReal", "uniformInt"} /\ call.lo > call.hi)
    => ret.kind = "assert"

=============================================================================
